---- MODULE Spec2Model ----
(***************************************************************************)
(* py-detective: file classification (finder.py), directory traversal      *)
(* (Finder.traverse) and name/content matching (grepper.py).               *)
(*                                                                         *)
(* Strings and byte strings are sequences of character codes; a path is    *)
(* the path string the code handles (components separated by '/').         *)
(***************************************************************************)
EXTENDS Integers, Sequences, FiniteSets, TLC

VARIABLES
    fs,       \* the filesystem: node id -> node record (node 0 is the cwd)
    cfg,      \* the Finder object's attributes
    start,    \* the path string given to traverse / categorize_path / do_grep
    gcfg,     \* the Grepper object's attributes and do_grep's kind argument
    stack,    \* the active generator frames of traverse, outermost first
    out,      \* the (path, kind) pairs yielded so far
    visited,  \* the child paths traverse has classified so far, in order
    entered,  \* the paths whose children traverse has listed so far, in order
    res,      \* the result of the last categorize_path / do_grep call
    pc        \* position of the run

vars == <<fs, cfg, start, gcfg, stack, out, visited, entered, res, pc>>

-----------------------------------------------------------------------------
(* Bounds of the model *)

\* longest raw file content drawn for the classification runs
MaxLen == 3
\* largest binary_bytes (probe size) drawn for the classification runs
MaxProbe == 2
\* deepest nesting of traverse generators followed before the walk is given up
MaxDepth == 4
\* longest pattern drawn for the matching runs
MaxPat == 2
\* longest file content drawn for the matching runs
MaxContent == 2

-----------------------------------------------------------------------------
(* Character codes and string helpers *)

Dot == 46
Slash == 47
Tilde == 126
Newline == 10
Caret == 94

Min(a, b) == IF a < b THEN a ELSE b

StartsWith(s, p) == Len(s) >= Len(p) /\ SubSeq(s, 1, Len(p)) = p

EndsWith(s, p) == Len(s) >= Len(p) /\ SubSeq(s, Len(s) - Len(p) + 1, Len(s)) = p

\* str.rfind(c) + 1: the last position of c in s, 0 when absent
RFind(s, c) ==
    LET hits == {i \in 1..Len(s) : s[i] = c}
    IN  IF hits = {} THEN 0 ELSE CHOOSE i \in hits : \A j \in hits : j <= i

\* os.path.split(p)[-1]
Basename(p) == SubSeq(p, RFind(p, Slash) + 1, Len(p))

\* os.path.join(a, b) for a relative b
Join(a, b) ==
    IF a = <<>> \/ a[Len(a)] = Slash THEN a \o b ELSE a \o <<Slash>> \o b

\* os.path.splitext(p)[1]: from the last dot of the last component, unless
\* only dots precede it in that component
SplitExt(p) ==
    LET sepIndex == RFind(p, Slash)
        dotIndex == RFind(p, Dot)
    IN  IF dotIndex > sepIndex
           /\ \E k \in (sepIndex + 1)..(dotIndex - 1) : p[k] # Dot
        THEN SubSeq(p, dotIndex, Len(p))
        ELSE <<>>

\* os.path.normcase on a POSIX system returns the path unchanged
NormCase(p) == p

\* p.split('/')
RECURSIVE Split(_)
Split(p) ==
    LET hits == {i \in 1..Len(p) : p[i] = Slash}
    IN  IF hits = {} THEN <<p>>
        ELSE LET i == CHOOSE k \in hits : \A j \in hits : k <= j
             IN  <<SubSeq(p, 1, i - 1)>> \o Split(SubSeq(p, i + 1, Len(p)))

\* str comparison (code point order), as sorted() uses it
RECURSIVE LexLess(_, _)
LexLess(a, b) ==
    IF b = <<>> THEN FALSE
    ELSE IF a = <<>> THEN TRUE
    ELSE IF a[1] # b[1] THEN a[1] < b[1]
    ELSE LexLess(Tail(a), Tail(b))

\* sorted(names): insertion into an ascending list
RECURSIVE Insert(_, _)
Insert(x, s) ==
    IF s = <<>> THEN <<x>>
    ELSE IF LexLess(s[1], x) THEN <<s[1]>> \o Insert(x, Tail(s))
    ELSE <<x>> \o s

\* the listing taken as the OS returns it
Unsorted(names) == names

RECURSIVE Sorted(_)
Sorted(names) ==
    IF names = <<>> THEN <<>> ELSE Insert(names[1], Sorted(Tail(names)))

-----------------------------------------------------------------------------
(* The filesystem the os / gzip calls act on *)

NoNode == -1
GzErr == <<-1>>

NodeIds == DOMAIN fs

\* A symlink names its target node directly; NoNode is a dangling link.
Deref(n) ==
    IF n # NoNode /\ fs[n].type = "symlink" THEN fs[n].target ELSE n

Lookup(dir, name) ==
    LET hits == {i \in 1..Len(fs[dir].entries) : fs[dir].entries[i].name = name}
    IN  IF hits = {} THEN NoNode
        ELSE fs[dir].entries[CHOOSE i \in hits : TRUE].node

\* Path resolution from node cur over comps[i..]; the final component's
\* symlink is followed iff follow. Every earlier component must lead to a
\* directory; an empty or '.' component stays in the directory.
RECURSIVE Walk(_, _, _, _)
Walk(cur, comps, i, follow) ==
    IF i > Len(comps) THEN cur
    ELSE LET here == Deref(cur)
         IN  IF here = NoNode \/ fs[here].type # "dir" THEN NoNode
             ELSE IF comps[i] = <<>> \/ comps[i] = <<Dot>>
                  THEN Walk(here, comps, i + 1, follow)
             ELSE LET nxt == Lookup(here, comps[i])
                  IN  IF nxt = NoNode THEN NoNode
                      ELSE Walk(nxt, comps, i + 1, follow)

\* os.stat(path): the node reached, symlinks followed; NoNode is OSError
Stat(path) ==
    IF path = <<>> THEN NoNode ELSE Deref(Walk(0, Split(path), 1, TRUE))

\* os.path.islink(path): lstat says symlink
IsLink(path) ==
    LET n == IF path = <<>> THEN NoNode ELSE Walk(0, Split(path), 1, FALSE)
    IN  n # NoNode /\ fs[n].type = "symlink"

\* os.listdir(path): the basenames in directory order
ListDir(path) ==
    LET n == Stat(path)
    IN  [i \in 1..Len(fs[n].entries) |-> fs[n].entries[i].name]

ListDirFails(path) ==
    LET n == Stat(path)
    IN  n = NoNode \/ fs[n].type # "dir" \/ ~fs[n].listable

\* file.read(n) on a stream holding data
Read(data, n) == IF n < 0 THEN data ELSE SubSeq(data, 1, Min(n, Len(data)))

-----------------------------------------------------------------------------
(* finder.py *)

TEXTCHARS == {7, 8, 9, 10, 12, 13, 27} \cup (32..255)

GZIP_MAGIC == <<31, 139>>

\* bytes.translate(ALLBYTES, TEXTCHARS): the bytes left after deleting TEXTCHARS
Translate(bytes) == SelectSeq(bytes, LAMBDA b : b \notin TEXTCHARS)

\* 'foo.bar'
FooBar == <<102, 111, 111, 46, 98, 97, 114>>

\* Finder.__init__: skip_exts is split into the extensions splitext can
\* return and those that need a suffix test (kept as a set: the code only
\* asks whether any of them is a suffix)
Finder(skip_sub_dirs, skip_hidden_dirs, skip_hidden_files, skip_dirs, skip_exts, skip_symlink_dirs, skip_symlink_files, binary_bytes) ==
    [skip_sub_dirs      |-> skip_sub_dirs,
     skip_hidden_dirs   |-> skip_hidden_dirs,
     skip_hidden_files  |-> skip_hidden_files,
     skip_dirs          |-> skip_dirs,
     skip_symlink_dirs  |-> skip_symlink_dirs,
     skip_symlink_files |-> skip_symlink_files,
     binary_bytes       |-> binary_bytes,
     skip_exts_simple   |->
        {ext \in skip_exts : SplitExt(FooBar \o ext) = ext},
     skip_exts_endswith |->
        {ext \in skip_exts : SplitExt(FooBar \o ext) # ext}]

\* Finder._is_binary_file(f): f is the open stream, [readable, data].
\* A failed read leaves the local name unbound, so the translate line
\* raises UnboundLocalError and f.close() is not reached.
is_binary_file(f) ==
    IF ~f.readable
    THEN [exc |-> "UnboundLocalError", ret |-> FALSE, closed |-> FALSE]
    ELSE [exc |-> "none",
          ret |-> Translate(Read(f.data, cfg.binary_bytes)) # <<>>,
          closed |-> TRUE]

\* Finder._is_gzipped_text(filename): [exc, ret, open] with open the number
\* of handles the call leaves open
is_gzipped_text(filename) ==
    LET n == Stat(filename)
    IN  IF n = NoNode \/ fs[n].perm = "noopen"
        THEN [exc |-> "OSError", ret |-> FALSE, open |-> 0]
        ELSE IF fs[n].perm = "markerfail"
        THEN [exc |-> "OSError", ret |-> FALSE, open |-> 1]
        ELSE IF Read(fs[n].raw, 2) = GZIP_MAGIC
        THEN LET r == is_binary_file([readable |-> fs[n].gz # GzErr,
                                      data |-> fs[n].gz])
             IN  IF r.exc = "none"
                 THEN [exc |-> "none", ret |-> ~r.ret, open |-> 0]
                 ELSE [exc |-> r.exc, ret |-> FALSE, open |-> 1]
        ELSE [exc |-> "none", ret |-> FALSE, open |-> 0]

\* categorize_directory without the hidden-directory test
categorize_directory_no_hidden(dir_path) ==
    LET basename == Basename(dir_path)
    IN  IF cfg.skip_symlink_dirs /\ IsLink(dir_path) THEN "link"
        ELSE IF basename \in cfg.skip_dirs THEN "skip"
        ELSE "directory"

\* categorize_directory without the symlink test
categorize_directory_no_link(dir_path) ==
    LET basename == Basename(dir_path)
    IN  IF cfg.skip_hidden_dirs /\ StartsWith(basename, <<Dot>>)
           /\ basename \notin {<<Dot>>, <<Dot, Dot>>}
        THEN "skip"
        ELSE IF basename \in cfg.skip_dirs THEN "skip"
        ELSE "directory"

\* Finder.categorize_directory(dir_path)
categorize_directory(dir_path) ==
    LET basename == Basename(dir_path)
    IN  IF cfg.skip_hidden_dirs /\ StartsWith(basename, <<Dot>>)
           /\ basename \notin {<<Dot>>, <<Dot, Dot>>}
        THEN "skip"
        ELSE IF cfg.skip_symlink_dirs /\ IsLink(dir_path) THEN "link"
        ELSE IF basename \in cfg.skip_dirs THEN "skip"
        ELSE "directory"

\* Finder.categorize_file(file_path): [kind, exc, open]
categorize_file(file_path) ==
    LET basename     == Basename(file_path)
        file_path_nc == NormCase(file_path)
        ext          == SplitExt(file_path_nc)
        n            == Stat(file_path)
        Ret(k)       == [kind |-> k, exc |-> "none", open |-> 0]
    IN  IF cfg.skip_hidden_files /\ StartsWith(basename, <<Dot>>) THEN Ret("skip")
        ELSE IF cfg.skip_symlink_files /\ IsLink(file_path) THEN Ret("link")
        ELSE IF ext \in cfg.skip_exts_simple \/ StartsWith(ext, <<Dot, Tilde>>)
        THEN Ret("skip")
        ELSE IF \E e \in cfg.skip_exts_endswith : EndsWith(file_path_nc, e)
        THEN Ret("skip")
        ELSE IF n = NoNode \/ fs[n].perm = "noopen" THEN Ret("unreadable")
        ELSE LET b == is_binary_file([readable |-> fs[n].perm # "probefail",
                                      data |-> fs[n].raw])
             IN  IF b.exc # "none"
                 THEN [kind |-> "", exc |-> b.exc, open |-> 1]
                 ELSE IF ~b.ret THEN Ret("text")
                 ELSE LET g == is_gzipped_text(file_path)
                      IN  IF g.exc = "OSError"
                          THEN [kind |-> "unreadable", exc |-> "none", open |-> g.open]
                          ELSE IF g.exc # "none"
                          THEN [kind |-> "", exc |-> g.exc, open |-> g.open]
                          ELSE IF g.ret THEN Ret("gzip")
                          ELSE Ret("binary")

\* Finder.categorize_path(path_str): [kind, exc, open]
categorize_path(path_str) ==
    LET n == Stat(path_str)
    IN  IF n = NoNode THEN [kind |-> "unreadable", exc |-> "none", open |-> 0]
        ELSE IF fs[n].type = "file" THEN categorize_file(path_str)
        ELSE IF fs[n].type = "dir"
        THEN [kind |-> categorize_directory(path_str), exc |-> "none", open |-> 0]
        ELSE [kind |-> "skip", exc |-> "none", open |-> 0]

\* the yield test letting links through
IsMatchableOrLink(kind) == kind \in {"binary", "text", "gzip", "link"}

\* Finder.traverse: the kinds that are yielded
IsMatchable(kind) == kind \in {"binary", "text", "gzip"}

-----------------------------------------------------------------------------
(* detective.py *)

\* get_file_finder(args): one follow_symlinks flag sets both symlink
\* attributes; binary_bytes keeps its default
get_file_finder(args) ==
    Finder(~args.recurse_dirs, args.skip_hidden_dirs, args.skip_hidden_files, args.skip_dirs, args.skip_exts, ~args.follow_symlinks, ~args.follow_symlinks, 4096)

\* get_regex(args): the flags of args.re_flags or-ed together
get_regex(args) == [pattern |-> args.regex, flags |-> UNION args.re_flags]

-----------------------------------------------------------------------------
(* grepper.py *)

\* str.encode('utf-8') for code points below 0x800
RECURSIVE Utf8(_)
Utf8(s) ==
    IF s = <<>> THEN <<>>
    ELSE (IF s[1] < 128 THEN <<s[1]>>
          ELSE <<192 + (s[1] \div 64), 128 + (s[1] % 64)>>) \o Utf8(Tail(s))

\* case folding of re.IGNORECASE on the letters the model draws
Fold(c) == IF c \in 65..90 THEN c + 32 ELSE c

\* A pattern is a sequence of tokens: '.' matches any character (a newline
\* only under DOTALL), '^' matches at the start (and after a newline under
\* MULTILINE), any other code matches itself (up to case under IGNORECASE).
RECURSIVE MatchFrom(_, _, _, _)
MatchFrom(re, k, text, i) ==
    IF k > Len(re.pattern) THEN TRUE
    ELSE IF re.pattern[k] = Caret
    THEN (IF i = 1 THEN TRUE ELSE "M" \in re.flags /\ text[i - 1] = Newline)
         /\ MatchFrom(re, k + 1, text, i)
    ELSE IF i > Len(text) THEN FALSE
    ELSE (IF re.pattern[k] = Dot THEN "S" \in re.flags \/ text[i] # Newline
          ELSE IF "I" \in re.flags THEN Fold(re.pattern[k]) = Fold(text[i])
          ELSE re.pattern[k] = text[i])
         /\ MatchFrom(re, k + 1, text, i + 1)

\* compiled_pattern.search(text) is not None
Search(re, text) == \E i \in 1..(Len(text) + 1) : MatchFrom(re, 1, text, i)

\* Grepper.__init__
Grepper(regex, search_file_contents) ==
    [regex |-> regex,
     regex_m |-> [pattern |-> Utf8(regex.pattern), flags |-> {"S", "M"}],
     search_file_contents |-> search_file_contents]

\* Grepper._grep_contents(fp, kind) on the open file of node n: [ret, exc]
grep_contents(n, kind) ==
    IF kind = "text"
    THEN [ret |-> Search(gcfg.regex_m, fs[n].raw), exc |-> "none"]
    ELSE IF kind = "gzip"
    THEN IF fs[n].gz = GzErr THEN [ret |-> FALSE, exc |-> "OSError"]
         ELSE [ret |-> Search(gcfg.regex_m, fs[n].gz), exc |-> "none"]
    ELSE [ret |-> FALSE, exc |-> "Exception"]

\* do_grep without the test of st_size: an empty file is matched by name,
\* and mapping it for a content match raises ValueError
do_grep_no_size_test(filename, kind) ==
    LET n == Stat(filename)
        R(ret, exc, opened) ==
            [ret |-> ret, exc |-> exc, opened |-> opened, open |-> 0]
    IN  IF n = NoNode THEN R(FALSE, "OSError", 0)
        ELSE IF gcfg.search_file_contents
        THEN IF kind \notin {"text", "gzip"} \/ fs[n].perm = "noopen"
             THEN R(FALSE, "UnboundLocalError", 0)
             ELSE IF Len(fs[n].raw) = 0 THEN R(FALSE, "ValueError", 1)
             ELSE LET g == grep_contents(n, kind)
                  IN  R(g.ret, g.exc, 1)
        ELSE R(Search(gcfg.regex, filename), "none", 0)

\* Grepper.do_grep(filename, kind): [ret, exc, opened, open]; opened counts
\* the handles the call opened, open those it left open
do_grep(filename, kind) ==
    LET n == Stat(filename)
        R(ret, exc, opened) ==
            [ret |-> ret, exc |-> exc, opened |-> opened, open |-> 0]
    IN  IF n = NoNode THEN R(FALSE, "OSError", 0)
        ELSE IF Len(fs[n].raw) # 0
        THEN IF gcfg.search_file_contents
             THEN IF kind \notin {"text", "gzip"} \/ fs[n].perm = "noopen"
                  THEN R(FALSE, "UnboundLocalError", 0)
                  ELSE LET g == grep_contents(n, kind)
                       IN  R(g.ret, g.exc, 1)
             ELSE R(Search(gcfg.regex, filename), "none", 0)
        ELSE R(FALSE, "none", 0)

-----------------------------------------------------------------------------
(* Filesystems and inputs the runs draw from *)

Node(type, entries, listable, target, raw, gz, perm) ==
    [type |-> type, entries |-> entries, listable |-> listable,
     target |-> target, raw |-> raw, gz |-> gz, perm |-> perm]

DirNode(entries, listable) == Node("dir", entries, listable, NoNode, <<>>, GzErr, "ok")
FileNode(raw, gz, perm) == Node("file", <<>>, FALSE, NoNode, raw, gz, perm)
LinkNode(target) == Node("symlink", <<>>, FALSE, target, <<>>, GzErr, "ok")
FifoNode == Node("fifo", <<>>, FALSE, NoNode, <<>>, GzErr, "ok")

Entry(name, node) == [name |-> name, node |-> node]

\* sequences over S of length at most n
SeqsUpTo(S, n) == UNION {[1..k -> S] : k \in 0..n}

\* file contents: plain text, bytes with a NUL, gzip of text, gzip of bytes
\* with a NUL, a gzip header with a damaged stream
TextFile    == FileNode(<<104, 105>>, GzErr, "ok")
BinFile     == FileNode(<<0, 1, 2>>, GzErr, "ok")
GzTextFile  == FileNode(<<31, 139, 8>>, <<104, 105>>, "ok")
GzBinFile   == FileNode(<<31, 139, 8>>, <<0>>, "ok")
BadGzFile   == FileNode(<<31, 139, 0>>, GzErr, "ok")

\* names used in the trees
N_t  == <<116>>
N_h  == <<104>>
N_dh == <<Dot, 104>>
N_s  == <<115>>
N_a  == <<97>>
N_b  == <<98>>
N_l  == <<108>>
N_dz == <<Dot, 122>>
N_k  == <<107>>

\* The trees of the traversal runs, under the cwd:
\*   t/            listed by the OS in the order l, <hname>, .z, b
\*   t/<hname>/s/a a directory (hidden or not) holding a directory and a file
\*   t/b  t/.z     files
\*   t/l           a symlink (to t itself, to t/<hname>/s, to t/b, dangling),
\*                 a fifo, or a directory that cannot be listed
Tree(hname, lk, fa, fb) ==
    0 :> DirNode(<<Entry(N_t, 1)>>, TRUE)
    @@ 1 :> DirNode(<<Entry(N_l, 6), Entry(hname, 2), Entry(N_dz, 7), Entry(N_b, 5)>>, TRUE)
    @@ 2 :> DirNode(<<Entry(N_s, 3)>>, TRUE)
    @@ 3 :> DirNode(<<Entry(N_a, 4)>>, TRUE)
    @@ 4 :> fa
    @@ 5 :> fb
    @@ 6 :> (CASE lk = "cycle"    -> LinkNode(1)
               [] lk = "tosub"    -> LinkNode(3)
               [] lk = "tofile"   -> LinkNode(5)
               [] lk = "dangling" -> LinkNode(NoNode)
               [] lk = "fifo"     -> FifoNode
               [] lk = "nolist"   -> DirNode(<<Entry(N_a, 4)>>, FALSE))
    @@ 7 :> TextFile

LinkKinds == {"cycle", "tosub", "tofile", "dangling", "fifo", "nolist"}

FilePairs ==
    {<<TextFile, TextFile>>, <<GzTextFile, BinFile>>, <<BadGzFile, TextFile>>,
     <<TextFile, FileNode(<<104, 105>>, GzErr, "probefail")>>,
     <<GzBinFile, FileNode(<<104, 105>>, GzErr, "noopen")>>}

StartPaths(hname) ==
    {N_t, <<Dot>>, N_t \o <<Slash>> \o hname, N_t \o <<Slash>> \o hname \o <<Slash>>,
     N_t \o <<Slash>> \o hname \o <<Slash>> \o N_s,
     N_t \o <<Slash>> \o N_l, N_t \o <<Slash>> \o N_l \o <<Slash>>,
     N_t \o <<Slash>> \o N_b}

\* the command lines of detective.py that reach get_file_finder
FinderArgs ==
    [recurse_dirs : BOOLEAN, skip_hidden_dirs : BOOLEAN, skip_hidden_files : BOOLEAN,
     skip_dirs : {{}, {N_s}}, skip_exts : {{}}, follow_symlinks : BOOLEAN]

NoGrepper == [regex |-> <<>>, regex_m |-> <<>>, search_file_contents |-> FALSE, kind |-> ""]
NoResult == [kind |-> "", exc |-> "none", open |-> 0]

-----------------------------------------------------------------------------
(* Finder.traverse as a stack of generator frames *)

Frame(path, phase, todo) == [path |-> path, phase |-> phase, todo |-> todo]

Top == stack[Len(stack)]

\* the frames left when the innermost generator is exhausted
Pop == SubSeq(stack, 1, Len(stack) - 1)

Returned(s) == IF s = <<>> THEN "done" ELSE "run"

ReplaceTop(f) == [stack EXCEPT ![Len(stack)] = f]

Init ==
    /\ \E hname \in {N_h, N_dh}, lk \in LinkKinds, fp \in FilePairs :
          /\ fs = Tree(hname, lk, fp[1], fp[2])
          /\ start \in StartPaths(hname)
    /\ \E args \in FinderArgs : cfg = get_file_finder(args)
    /\ gcfg = NoGrepper
    /\ stack = <<Frame(start, "start", <<>>)>>
    /\ out = <<>>
    /\ visited = <<>>
    /\ entered = <<>>
    /\ res = NoResult
    /\ pc = "run"

Running == pc = "run" /\ stack # <<>>

\* kind = self.categorize_path(startpath) raises: the exception leaves every
\* enclosing generator
StartRaise ==
    /\ Running /\ Top.phase = "start"
    /\ categorize_path(Top.path).exc # "none"
    /\ pc' = "raised" /\ stack' = <<>>
    /\ UNCHANGED <<fs, cfg, start, gcfg, out, visited, entered, res>>

\* if kind in ('binary', 'text', 'gzip'): yield startpath, kind
StartYield ==
    /\ Running /\ Top.phase = "start"
    /\ LET k == categorize_path(Top.path)
       IN  /\ k.exc = "none" /\ IsMatchable(k.kind)
           /\ out' = Append(out, <<Top.path, k.kind>>)
    /\ stack' = Pop /\ pc' = Returned(Pop)
    /\ UNCHANGED <<fs, cfg, start, gcfg, visited, entered, res>>

\* elif kind == 'directory': basenames = os.listdir(startpath), sorted
StartList ==
    /\ Running /\ Top.phase = "start"
    /\ LET k == categorize_path(Top.path)
       IN  k.exc = "none" /\ k.kind = "directory"
    /\ ~ListDirFails(Top.path)
    /\ stack' = ReplaceTop(Frame(Top.path, "loop", Sorted(ListDir(Top.path))))
    /\ entered' = Append(entered, Top.path)
    /\ UNCHANGED <<fs, cfg, start, gcfg, out, visited, res, pc>>

\* except OSError: return
StartListFails ==
    /\ Running /\ Top.phase = "start"
    /\ LET k == categorize_path(Top.path)
       IN  k.exc = "none" /\ k.kind = "directory"
    /\ ListDirFails(Top.path)
    /\ stack' = Pop /\ pc' = Returned(Pop)
    /\ UNCHANGED <<fs, cfg, start, gcfg, out, visited, entered, res>>

\* any other kind: the generator ends without yielding
StartPass ==
    /\ Running /\ Top.phase = "start"
    /\ LET k == categorize_path(Top.path)
       IN  k.exc = "none" /\ ~IsMatchable(k.kind) /\ k.kind # "directory"
    /\ stack' = Pop /\ pc' = Returned(Pop)
    /\ UNCHANGED <<fs, cfg, start, gcfg, out, visited, entered, res>>

InLoop == Running /\ Top.phase = "loop" /\ Top.todo # <<>>

ChildPath == Join(Top.path, Top.todo[1])

Advance == ReplaceTop(Frame(Top.path, "loop", Tail(Top.todo)))

\* kind = self.categorize_path(path) raises inside the loop
ChildRaise ==
    /\ InLoop
    /\ categorize_path(ChildPath).exc # "none"
    /\ visited' = Append(visited, ChildPath)
    /\ pc' = "raised" /\ stack' = <<>>
    /\ UNCHANGED <<fs, cfg, start, gcfg, out, entered, res>>

\* if kind in ('binary', 'text', 'gzip'): yield path, kind
ChildYield ==
    /\ InLoop
    /\ LET k == categorize_path(ChildPath)
       IN  /\ k.exc = "none" /\ IsMatchable(k.kind)
           /\ out' = Append(out, <<ChildPath, k.kind>>)
    /\ visited' = Append(visited, ChildPath)
    /\ stack' = Advance
    /\ UNCHANGED <<fs, cfg, start, gcfg, entered, res, pc>>

\* elif kind == 'directory': if not self.skip_sub_dirs:
\*     for fn, k in self.traverse(path)
ChildDescend ==
    /\ InLoop
    /\ LET k == categorize_path(ChildPath)
       IN  k.exc = "none" /\ k.kind = "directory"
    /\ ~cfg.skip_sub_dirs
    /\ Len(stack) < MaxDepth
    /\ visited' = Append(visited, ChildPath)
    /\ stack' = Append(Advance, Frame(ChildPath, "start", <<>>))
    /\ UNCHANGED <<fs, cfg, start, gcfg, out, entered, res, pc>>

\* the same descent beyond the depth the model follows: the walk goes on
\* past the bound (a symlink cycle that is being followed)
ChildDiverge ==
    /\ InLoop
    /\ LET k == categorize_path(ChildPath)
       IN  k.exc = "none" /\ k.kind = "directory"
    /\ ~cfg.skip_sub_dirs
    /\ Len(stack) >= MaxDepth
    /\ pc' = "diverged"
    /\ UNCHANGED <<fs, cfg, start, gcfg, stack, out, visited, entered, res>>

\* a child of any other kind, or a directory when skip_sub_dirs is set
ChildPass ==
    /\ InLoop
    /\ LET k == categorize_path(ChildPath)
       IN  /\ k.exc = "none" /\ ~IsMatchable(k.kind)
           /\ (k.kind = "directory" => cfg.skip_sub_dirs)
    /\ visited' = Append(visited, ChildPath)
    /\ stack' = Advance
    /\ UNCHANGED <<fs, cfg, start, gcfg, out, entered, res, pc>>

\* the for loop is exhausted: the generator ends
LoopEnd ==
    /\ Running /\ Top.phase = "loop" /\ Top.todo = <<>>
    /\ stack' = Pop /\ pc' = Returned(Pop)
    /\ UNCHANGED <<fs, cfg, start, gcfg, out, visited, entered, res>>

Next ==
    \/ StartRaise \/ StartYield \/ StartList \/ StartListFails \/ StartPass
    \/ ChildRaise \/ ChildYield \/ ChildDescend \/ ChildDiverge \/ ChildPass
    \/ LoopEnd

Spec == Init /\ [][Next]_vars

-----------------------------------------------------------------------------
(* One call of Finder.categorize_path on one file *)

N_gz    == <<Dot, 103, 122>>
N_targz == <<Dot, 116, 97, 114>> \o N_gz

\* the file names drawn: a, .a, a.gz, a.tar.gz, a.~
FileNames == {N_a, <<Dot>> \o N_a, N_a \o N_gz, N_a \o N_targz, N_a \o <<Dot, Tilde>>}

\* raw bytes drawn: the two gzip magic bytes (0x1F is not a text byte) and 'A'
RawBytes == {31, 139, 65}

\* what gzip yields for a file: nothing for one without the magic bytes,
\* else a failure or any short stream of 'A' and 0x1F
GzStreams(raw) ==
    IF Read(raw, 2) = GZIP_MAGIC
    THEN {GzErr} \cup SeqsUpTo({65, 31}, MaxProbe) ELSE {GzErr}

\* the cwd holds the file and k, a symlink to it
InitClassify ==
    /\ \E fname \in FileNames, raw \in SeqsUpTo(RawBytes, MaxLen),
          perm \in {"ok", "noopen", "probefail", "markerfail"} :
          /\ \E gz \in GzStreams(raw) :
                fs = 0 :> DirNode(<<Entry(N_k, 2), Entry(fname, 1)>>, TRUE)
                     @@ 1 :> FileNode(raw, gz, perm)
                     @@ 2 :> LinkNode(1)
          /\ start \in {fname, N_k}
    /\ \E shf \in BOOLEAN, ssf \in BOOLEAN, exts \in {{}, {N_gz, N_targz}},
          bb \in (0..MaxProbe) \cup {4096} :
          cfg = Finder(TRUE, FALSE, shf, {}, exts, TRUE, ssf, bb)
    /\ gcfg = NoGrepper
    /\ stack = <<>>
    /\ out = <<>>
    /\ visited = <<>>
    /\ entered = <<>>
    /\ res = NoResult
    /\ pc = "classify"

\* categorize_path returns a kind
CategorizeReturns ==
    /\ pc = "classify"
    /\ categorize_path(start).exc = "none"
    /\ res' = categorize_path(start)
    /\ pc' = "classified"
    /\ UNCHANGED <<fs, cfg, start, gcfg, stack, out, visited, entered>>

\* categorize_path raises
CategorizeRaises ==
    /\ pc = "classify"
    /\ categorize_path(start).exc # "none"
    /\ res' = categorize_path(start)
    /\ pc' = "classified"
    /\ UNCHANGED <<fs, cfg, start, gcfg, stack, out, visited, entered>>

NextClassify == CategorizeReturns \/ CategorizeRaises

SpecClassify == InitClassify /\ [][NextClassify]_vars

-----------------------------------------------------------------------------
(* One call of Grepper.do_grep on one file *)

\* pattern tokens drawn: a, A, '.', '^' and e-acute (two bytes in UTF-8)
PatTokens == {97, 65, Dot, Caret, 233}

\* file contents drawn: short texts of a, A and newline, the UTF-8 bytes of
\* e-acute, and a gzip file of a short text or with a damaged stream
GrepFiles ==
    {FileNode(raw, GzErr, "ok") : raw \in SeqsUpTo({97, 65, Newline}, MaxContent)}
    \cup {FileNode(<<195, 169>>, GzErr, "ok"), FileNode(<<97>>, GzErr, "noopen")}
    \cup {FileNode(<<31, 139, 8>>, gz, "ok") :
             gz \in {GzErr} \cup SeqsUpTo({97, 65}, MaxContent)}

InitGrep ==
    /\ \E f \in GrepFiles : fs = 0 :> DirNode(<<Entry(N_a, 1)>>, TRUE) @@ 1 :> f
    /\ start = N_a
    /\ cfg = Finder(TRUE, FALSE, FALSE, {}, {}, TRUE, TRUE, 4096)
    /\ \E pat \in SeqsUpTo(PatTokens, MaxPat), re_flags \in {{}, {{"I"}}},
          search_contents \in BOOLEAN, kind \in {"text", "gzip", "binary"} :
          gcfg = [kind |-> kind]
                 @@ Grepper(get_regex([regex |-> pat, re_flags |-> re_flags]),
                            search_contents)
    /\ stack = <<>>
    /\ out = <<>>
    /\ visited = <<>>
    /\ entered = <<>>
    /\ res = [ret |-> FALSE, exc |-> "none", opened |-> 0, open |-> 0]
    /\ pc = "grep"

\* do_grep returns True or False
GrepReturns ==
    /\ pc = "grep"
    /\ do_grep(start, gcfg.kind).exc = "none"
    /\ res' = do_grep(start, gcfg.kind)
    /\ pc' = "grepped"
    /\ UNCHANGED <<fs, cfg, start, gcfg, stack, out, visited, entered>>

\* do_grep raises
GrepRaises ==
    /\ pc = "grep"
    /\ do_grep(start, gcfg.kind).exc # "none"
    /\ res' = do_grep(start, gcfg.kind)
    /\ pc' = "grepped"
    /\ UNCHANGED <<fs, cfg, start, gcfg, stack, out, visited, entered>>

NextGrep == GrepReturns \/ GrepRaises

SpecGrep == InitGrep /\ [][NextGrep]_vars

-----------------------------------------------------------------------------
(* Properties of Finder.traverse *)

Paths(pairs) == [i \in 1..Len(pairs) |-> pairs[i][1]]

\* the directories named in path p: its proper prefixes that end before a '/'
Ancestors(p) == {SubSeq(p, 1, k - 1) : k \in {j \in 1..Len(p) : p[j] = Slash}}

\* those reached from the start path by joining listed basenames
AncestorsBelow(p) == {q \in Ancestors(p) : Len(q) > Len(start)}

Hidden(name) == StartsWith(name, <<Dot>>) /\ name \notin {<<Dot>>, <<Dot, Dot>>}

\* order of two paths in a depth-first walk that takes children in
\* ascending basename order: component by component, a prefix first
RECURSIVE WalkLess(_, _)
WalkLess(a, b) ==
    IF b = <<>> THEN FALSE
    ELSE IF a = <<>> THEN TRUE
    ELSE IF a[1] # b[1] THEN LexLess(a[1], b[1])
    ELSE WalkLess(Tail(a), Tail(b))

Ascending(paths) ==
    \A i \in 1..(Len(paths) - 1) : WalkLess(Split(paths[i]), Split(paths[i + 1]))

\* p without trailing separators and '.' components
RECURSIVE Strip(_)
Strip(p) ==
    IF Len(p) > 1 /\ p[Len(p)] = Slash THEN Strip(SubSeq(p, 1, Len(p) - 1))
    ELSE IF Len(p) > 2 /\ SubSeq(p, Len(p) - 1, Len(p)) = <<Slash, Dot>>
    THEN Strip(SubSeq(p, 1, Len(p) - 2))
    ELSE p

\* the entry p names is a symbolic link
NamesSymlink(p) == IsLink(Strip(p))

Terminated == pc \in {"done", "raised"}

\* C1: every yielded pair has kind text, binary or gzip; traverse lists only
\* paths classified directory; and every directory between the start path
\* and a yielded path is classified directory, so an entry classified link,
\* skip or unreadable contributes nothing from beneath it.
C1_OnlyMatchableYielded ==
    /\ \A i \in 1..Len(out) :
          /\ out[i][2] \in {"text", "binary", "gzip"}
          /\ categorize_path(out[i][1]).kind = out[i][2]
          /\ out[i][1] # start =>
                \A q \in {start} \cup AncestorsBelow(out[i][1]) :
                    categorize_path(q).kind = "directory"
    /\ \A i \in 1..Len(entered) : categorize_path(entered[i]).kind = "directory"

\* a finished walk that yielded something and passed over a link to a
\* directory holding a matchable file
C1_Witness ==
    /\ pc = "done" /\ out # <<>>
    /\ \E i \in 1..Len(visited) :
          /\ categorize_path(visited[i]).kind = "link"
          /\ fs[Stat(visited[i])].type = "dir"
          /\ \E e \in 1..Len(fs[Stat(visited[i])].entries) :
                fs[fs[Stat(visited[i])].entries[e].node].type = "file"
          /\ \A j \in 1..Len(out) : ~StartsWith(out[j][1], visited[i])

\* C2: the children of every directory are classified in ascending basename
\* order, files and directories in the one order, and a subdirectory's
\* entries come after everything of its earlier siblings and before
\* anything of its later siblings: the classified paths and the yielded
\* paths both ascend in depth-first order.
C2_SortedDepthFirst ==
    /\ Ascending(visited)
    /\ Ascending(Paths(out))
    /\ \A i \in 1..Len(out) :
          out[i][1] # start => \E j \in 1..Len(visited) : visited[j] = out[i][1]

\* a finished recursive walk in which an entry of a subdirectory was yielded
\* between two entries of shallower levels
C2_Witness ==
    /\ pc = "done" /\ ~cfg.skip_sub_dirs
    /\ \E i \in 2..(Len(out) - 1) :
          /\ Len(Split(out[i][1])) > Len(Split(out[i - 1][1]))
          /\ Len(Split(out[i][1])) > Len(Split(out[i + 1][1]))

\* C5 as stated: with skip_hidden_dirs no yielded path has a hidden
\* directory anywhere among its ancestors, whatever the start path.
C5_NoHiddenAncestor ==
    cfg.skip_hidden_dirs =>
        \A i \in 1..Len(out) : \A q \in Ancestors(out[i][1]) : ~Hidden(Basename(q))

\* C5 amended: with skip_hidden_dirs no yielded path has a hidden directory
\* among its ancestors below the start path, and a start path whose own
\* basename is a hidden directory name yields nothing.
C5_NoHiddenAncestorBelowStart ==
    cfg.skip_hidden_dirs =>
        /\ \A i \in 1..Len(out) :
              \A q \in AncestorsBelow(out[i][1]) : ~Hidden(Basename(q))
        /\ (Hidden(Basename(start)) /\ Stat(start) # NoNode
               /\ fs[Stat(start)].type = "dir") => out = <<>>

\* a finished recursive walk from t that met the hidden directory t/.h
\* (which holds a file) and yielded other entries
C5_Witness ==
    /\ cfg.skip_hidden_dirs /\ ~cfg.skip_sub_dirs /\ pc = "done"
    /\ start = N_t /\ out # <<>>
    /\ \E i \in 1..Len(visited) : visited[i] = N_t \o <<Slash>> \o N_dh

NoDuplicates(paths) ==
    \A i, j \in 1..Len(paths) : paths[i] = paths[j] => i = j

\* the directories and directory entries of the filesystem
DirNodes == {n \in NodeIds : fs[n].type = "dir"}

RECURSIVE SumEntries(_)
SumEntries(S) ==
    IF S = {} THEN 0
    ELSE LET n == CHOOSE x \in S : TRUE
         IN  Len(fs[n].entries) + SumEntries(S \ {n})

\* every step of the walk adds to its work done: a path classified, a
\* directory listed, a pair yielded or a generator finished
Progress == 2 * Len(visited) + Len(entered) + Len(out) - Len(stack)

\* the walk has ended or is going on within the depth followed
WalkEndsOrSteps == Terminated \/ (pc = "run" /\ stack # <<>>)

\* each real directory is listed at most once, so the work is bounded by
\* the size of the filesystem
BoundedWork ==
    /\ \A i, j \in 1..Len(entered) : Stat(entered[i]) = Stat(entered[j]) => i = j
    /\ Len(visited) <= SumEntries(DirNodes)

\* C10 as stated: with skip_symlink_dirs the walk terminates (every step
\* adds to its work done, that work is bounded by the filesystem, and the
\* walk never runs past the depth followed), no directory that is a
\* symbolic link is descended into, the start path included, and no path is
\* yielded twice.
C10_TerminatesNoSymlinkEntered ==
    /\ [](cfg.skip_symlink_dirs =>
             /\ \A i \in 1..Len(entered) : ~NamesSymlink(entered[i])
             /\ NoDuplicates(Paths(out))
             /\ BoundedWork
             /\ WalkEndsOrSteps)
    /\ [][cfg.skip_symlink_dirs => Progress' > Progress]_vars

\* C10 amended: with skip_symlink_dirs the walk terminates, no path is
\* yielded twice, and no symbolic link to a directory is descended into,
\* except the start path when its string ends in a separator or a '.'
\* component, which the OS resolves to the directory itself.
C10_TerminatesNoSymlinkEnteredBelowStart ==
    /\ [](cfg.skip_symlink_dirs =>
             /\ \A i \in 1..Len(entered) :
                   NamesSymlink(entered[i]) =>
                       entered[i] = start /\ Strip(start) # start
             /\ NoDuplicates(Paths(out))
             /\ BoundedWork
             /\ WalkEndsOrSteps)
    /\ [][cfg.skip_symlink_dirs => Progress' > Progress]_vars

\* a finished recursive walk from t that passed over t/l, a link back to t
C10_Witness ==
    /\ cfg.skip_symlink_dirs /\ ~cfg.skip_sub_dirs /\ pc = "done"
    /\ start = N_t /\ out # <<>>
    /\ fs[6].type = "symlink" /\ fs[6].target = 1
    /\ \E i \in 1..Len(visited) : visited[i] = N_t \o <<Slash>> \o N_l

-----------------------------------------------------------------------------
(* Properties of Finder.categorize_file *)

AllowSet == {7, 8, 9, 10, 12, 13, 27} \cup (32..255)

\* no byte outside the allow-set among the first binary_bytes bytes
ProbeIsText(data) ==
    \A i \in 1..Len(data) : i <= cfg.binary_bytes => data[i] \in AllowSet

StartsWithMagic(raw) == Len(raw) >= 2 /\ raw[1] = 31 /\ raw[2] = 139

TheFile == fs[Stat(start)]

\* the path is a regular file that no hidden, symlink or extension rule skips
PassesSkipChecks ==
    /\ Stat(start) # NoNode /\ TheFile.type = "file"
    /\ ~(cfg.skip_hidden_files /\ StartsWith(Basename(start), <<Dot>>))
    /\ ~(cfg.skip_symlink_files /\ IsLink(start))
    /\ SplitExt(start) \notin cfg.skip_exts_simple
    /\ ~StartsWith(SplitExt(start), <<Dot, Tilde>>)
    /\ \A e \in cfg.skip_exts_endswith : ~EndsWith(start, e)

\* C3: a regular file that passes the skip checks and can be opened is text
\* iff its probe holds no byte outside the allow-set; otherwise gzip iff it
\* starts with 0x1F 0x8B and the probe of its decompressed stream holds no
\* such byte; otherwise binary.
C3_ClassifyByProbe ==
    (pc = "classified" /\ PassesSkipChecks /\ TheFile.perm # "noopen") =>
        /\ res.exc = "none"
        /\ res.kind =
              IF ProbeIsText(TheFile.raw) THEN "text"
              ELSE IF StartsWithMagic(TheFile.raw) /\ TheFile.gz # GzErr
                      /\ ProbeIsText(TheFile.gz)
                   THEN "gzip"
                   ELSE "binary"

\* C7: when the file opens but the read of its probe fails, the result is
\* binary or gzip and nothing is raised.
C7_ProbeReadFailureIsBinary ==
    (pc = "classified" /\ PassesSkipChecks /\ TheFile.perm = "probefail") =>
        res.exc = "none" /\ res.kind \in {"binary", "gzip"}

\* C8: when the file starts with the gzip magic bytes and decompressing it
\* fails, the result is binary and nothing is raised.
C8_BadGzipIsBinary ==
    (pc = "classified" /\ PassesSkipChecks /\ TheFile.perm = "ok"
        /\ StartsWithMagic(TheFile.raw) /\ ~ProbeIsText(TheFile.raw)
        /\ TheFile.gz = GzErr) =>
        res.exc = "none" /\ res.kind = "binary"

\* C9: a classification call leaves no file handle open, whether it returns
\* or raises.
C9_NoHandleLeftOpen == pc = "classified" => res.open = 0

-----------------------------------------------------------------------------
(* Properties of Grepper.do_grep *)

\* C4: for a file of size zero do_grep returns False, for every pattern,
\* kind and mode, without opening the file and without raising.
C4_EmptyFileNeverMatches ==
    (pc = "grepped" /\ Len(TheFile.raw) = 0) =>
        res.ret = FALSE /\ res.exc = "none" /\ res.opened = 0

\* an empty file whose name the pattern matches, grepped by name
C4_Witness ==
    /\ pc = "grepped" /\ Len(TheFile.raw) = 0
    /\ ~gcfg.search_file_contents /\ Search(gcfg.regex, start)

\* C6: content matching uses the configured pattern with all its flags,
\* plus MULTILINE and DOTALL: a content match of a text file gives what a
\* search with the configured flags and those two gives.
C6_ContentMatchKeepsFlags ==
    (pc = "grepped" /\ gcfg.search_file_contents /\ gcfg.kind = "text"
        /\ TheFile.perm = "ok" /\ Len(TheFile.raw) # 0) =>
        /\ res.exc = "none"
        /\ res.ret = Search([pattern |-> Utf8(gcfg.regex.pattern),
                             flags |-> gcfg.regex.flags \cup {"S", "M"}],
                            TheFile.raw)

====
